---- MODULE Spec2Model ----
(***************************************************************************)
(* Model of the crawl engine of scripts/moodle_docs_crawler.py: URL        *)
(* normalisation, link classification, the BFS frontier and the batch      *)
(* control loop of crawl_moodle_docs with its four JSONL logs.             *)
(*                                                                         *)
(* A URL is the record urlparse() yields: scheme, netloc, path, query and  *)
(* fragment.  A path is the sequence of its "/"-separated segments (<<>>   *)
(* is the empty path), a query is the sequence of its parameters.          *)
(***************************************************************************)
EXTENDS Integers, Sequences, FiniteSets, TLC

\* ------------------------------------------------------------------------
\* Bounds of the explored configurations
\* ------------------------------------------------------------------------
MaxPagesBound == 3
MaxConcurrentBound == 2
MaxLinksBound == 2
MaxQueryLen == 2

\* ------------------------------------------------------------------------
\* URL values
\* ------------------------------------------------------------------------
U(scheme, netloc, path, query, fragment) ==
    [scheme |-> scheme, netloc |-> netloc, path |-> path,
     query |-> query, fragment |-> fragment]

\* one query parameter; eq is FALSE for a bare "k" written without "="
Q(k, v) == [k |-> k, v |-> v, eq |-> TRUE]
QBare(k) == [k |-> k, v |-> "", eq |-> FALSE]

DocsHost == "docs.moodle.org"

\* https://docs.moodle.org/403/en/<name>
Doc(name) == U("https", DocsHost, <<"403", "en", name>>, <<>>, "")
\* the site-relative reference /403/en/<name>?<query>#<fragment>
Rel(name, query, fragment) == U("", "", <<"403", "en", name>>, query, fragment)

\* str.lower() on the parameter keys that occur; every other key is lower case
Lower(s) ==
    CASE s = "OLDID" -> "oldid"
      [] s = "Printable" -> "printable"
      [] s = "Action" -> "action"
      [] OTHER -> s

NOISY_QUERY_PARAMS == {"oldid", "printable", "diff"}

RECURSIVE SelectParams(_)
SelectParams(query) ==
    IF query = <<>> THEN <<>>
    ELSE LET p == Head(query)
             rest == SelectParams(Tail(query))
         IN IF Lower(p.k) \in NOISY_QUERY_PARAMS
            THEN rest
            ELSE <<[k |-> p.k, v |-> p.v, eq |-> TRUE]>> \o rest

\* a filter that stops at the first noisy parameter it removes
RECURSIVE SelectParamsFirst(_)
SelectParamsFirst(query) ==
    IF query = <<>> THEN <<>>
    ELSE LET p == Head(query)
         IN IF Lower(p.k) \in NOISY_QUERY_PARAMS
            THEN Tail(query)
            ELSE <<[k |-> p.k, v |-> p.v, eq |-> TRUE]>> \o SelectParamsFirst(Tail(query))

normalize_url_first(url) ==
    [url EXCEPT !.fragment = "", !.query = SelectParamsFirst(url.query)]

\* lines 63-70
normalize_url(url) ==
    [url EXCEPT !.fragment = "", !.query = SelectParams(url.query)]

\* urljoin(base, ref) for absolute references, network-path references,
\* absolute-path references, query-only and fragment-only references
urljoin(base, ref) ==
    IF ref.scheme # "" THEN ref
    ELSE IF ref.netloc # "" THEN [ref EXCEPT !.scheme = base.scheme]
    ELSE IF ref.path # <<>>
         THEN [ref EXCEPT !.scheme = base.scheme, !.netloc = base.netloc]
    ELSE [scheme |-> base.scheme, netloc |-> base.netloc, path |-> base.path,
          query |-> IF ref.query # <<>> THEN ref.query ELSE base.query,
          fragment |-> ref.fragment]

\* ------------------------------------------------------------------------
\* Link classification
\* ------------------------------------------------------------------------
\* path.startswith(docs_prefix), for a prefix "/s1/.../sn/" given as <<s1..sn>>
StartsWith(path, prefix) ==
    /\ Len(path) > Len(prefix)
    /\ \A i \in 1..Len(prefix) : path[i] = prefix[i]

is_moodle_doc_url(url, docs_prefix) ==
    /\ url.scheme \in {"http", "https"}
    /\ url.netloc = DocsHost
    /\ StartsWith(url.path, docs_prefix)

\* the path segments whose lower-cased text contains a SKIP_TOKENS entry
SkipSegments == {"Special:Search", "special:recentchanges"}
\* "k=v" contains action=edit, action=history or veaction=edit when the key
\* ends in "action" and the value starts with "edit" or "history"
KeysEndingInAction == {"action", "veaction"}
ValuesStartingEditHistory == {"edit", "history"}
\* "k=v" contains printable=yes when the key ends in "printable" and the
\* value starts with "yes"
KeysEndingInPrintable == {"printable"}
ValuesStartingYes == {"yes"}

\* lines 122-124: a SKIP_TOKENS entry occurs in the lower-cased URL
should_skip_url(url) ==
    \/ \E i \in 1..Len(url.path) : url.path[i] \in SkipSegments
    \/ \E i \in 1..Len(url.query) :
          /\ url.query[i].eq
          /\ \/ /\ Lower(url.query[i].k) \in KeysEndingInAction
                /\ Lower(url.query[i].v) \in ValuesStartingEditHistory
             \/ /\ Lower(url.query[i].k) \in KeysEndingInPrintable
                /\ Lower(url.query[i].v) \in ValuesStartingYes

\* the hosts whose lower-cased name ends with a YOUTUBE_HOSTS entry
YoutubeSuffixHosts == {"www.youtube.com", "youtu.be", "notyoutube.com"}

is_youtube_url(url) == url.netloc \in YoutubeSuffixHosts

\* ------------------------------------------------------------------------
\* The site behind the fetch pool: what a successful fetch of a page returns
\* ------------------------------------------------------------------------
\* an entry of a structured link list or of the image list: a string (the
\* empty string is Str(NoUrl)), a dict carrying the reference, a dict
\* carrying the reference and a "page_url" key of its own, or a dict
\* carrying no reference; NoUrl in page_url stands for a dict without that
\* key
NoUrl == U("", "", <<>>, <<>>, "")
Str(ref) == [form |-> "str", ref |-> ref, page_url |-> NoUrl]
Dict(ref) == [form |-> "dict", ref |-> ref, page_url |-> NoUrl]
DictPage(ref, page_url) == [form |-> "dict", ref |-> ref, page_url |-> page_url]
Blank == [form |-> "blank", ref |-> NoUrl, page_url |-> NoUrl]

NoContent ==
    [internal |-> <<>>, external |-> <<>>, hrefs |-> <<>>,
     html_urls |-> <<>>, images |-> <<>>]

Img(name) == U("", "", <<"images", name>>, <<>>, "")
Watch(id) == U("https", "www.youtube.com", <<"watch">>, <<Q("v", id)>>, "")
Main501 == U("https", DocsHost, <<"501", "en", "Main_page">>, <<>>, "")

\* a tree: Main_page -> FAQ, Features, Installation; FAQ -> Plugins;
\* Installation -> Upgrading; Plugins -> Themes
TreeSite(url) ==
    CASE url = Doc("Main_page") ->
           [NoContent EXCEPT !.internal =
              <<Str(Rel("Installation", <<>>, "")), Str(Rel("FAQ", <<>>, "")),
                Dict(Rel("Features", <<>>, ""))>>,
              !.images = <<Str(Img("logo.png"))>>]
      [] url = Doc("FAQ") ->
           [NoContent EXCEPT !.internal = <<Str(Rel("Plugins", <<>>, ""))>>,
              !.images = <<Str(Img("logo.png"))>>]
      [] url = Doc("Installation") ->
           [NoContent EXCEPT !.internal = <<Str(Rel("Upgrading", <<>>, ""))>>]
      [] url = Doc("Plugins") ->
           [NoContent EXCEPT !.internal = <<Str(Rel("Themes", <<>>, ""))>>]
      [] OTHER -> NoContent

\* a wiki with cycles, fragment and noisy-parameter variants of one page,
\* out-of-scope and skip-flagged links, a page served without structured
\* links, and media shared between pages
WikiSite(url) ==
    CASE url = Main501 ->
           [NoContent EXCEPT !.internal =
              <<Str(Rel("Main_page", <<>>, "")),
                Str(U("", "", <<"501", "en", "FAQ">>, <<>>, ""))>>]
      [] url = Doc("Main_page") ->
           [NoContent EXCEPT
              !.internal =
                <<Str(Rel("FAQ", <<Q("oldid", "5")>>, "x")),
                  Dict([Doc("FAQ") EXCEPT !.fragment = "y"]),
                  Blank,
                  Str(U("", "", <<"403", "fr", "FAQ">>, <<>>, "")),
                  Str(Rel("Special:Search", <<>>, "")),
                  Str(Rel("FAQ", <<Q("action", "edit")>>, "")),
                  Str(U("", "", <<>>, <<>>, "top")),
                  Str(U("http", DocsHost, <<"403", "en", "Features">>, <<>>, "")),
                  Str(U("ftp", DocsHost, <<"403", "en", "FAQ">>, <<>>, ""))>>,
              !.external =
                <<Str(Watch("abc")),
                  Str(U("https", "moodle.org", <<"plugins">>, <<>>, ""))>>,
              !.images =
                <<Str(Img("logo.png")),
                  Dict([Img("logo.png") EXCEPT !.fragment = "v2"]),
                  Blank>>]
      [] url = Doc("FAQ") ->
           [NoContent EXCEPT
              !.internal =
                <<Str(Rel("Main_page", <<>>, "")),
                  Str(Rel("Installation", <<Q("printable", "yes")>>, ""))>>,
              !.html_urls =
                <<U("https", "youtu.be", <<"xyz">>, <<>>, ""),
                  [Watch("abc") EXCEPT !.fragment = "t10"],
                  U("https", "vimeo.com", <<"1">>, <<>>, "")>>,
              !.images = <<Dict(Img("logo.png")), Str(Img("faq.png"))>>]
      [] url = Doc("Installation") ->
           [NoContent EXCEPT
              !.hrefs =
                <<U("", "", <<>>, <<>>, "top"),
                  U("mailto", "", <<"docs@moodle.org">>, <<>>, ""),
                  Rel("FAQ", <<>>, ""),
                  Rel("Upgrading", <<Q("diff", "3")>>, ""),
                  Watch("abc")>>,
              !.html_urls = <<Watch("abc")>>]
      [] url = Doc("Upgrading") ->
           [NoContent EXCEPT
              !.internal =
                <<Str(Rel("Main_page", <<>>, "")),
                  Str(NoUrl),
                  Str(U("", "", <<>>, <<Q("OLDID", "7"), QBare("lang")>>, ""))>>,
              !.images = <<Str(Img("faq.png")), Str(NoUrl), Dict(NoUrl)>>]
      [] OTHER -> NoContent

\* a site that answers a fetch of any page with any list of at most
\* MaxLinksBound of these references
AnyRefs ==
    <<Rel("Main_page", <<>>, ""),
      Rel("FAQ", <<>>, ""),
      Rel("Features", <<Q("oldid", "5")>>, "x")>>

AnyLinkLists ==
    {[i \in 1..Len(ix) |-> Str(AnyRefs[ix[i]])] :
        ix \in {f \in UNION {[1..n -> 1..Len(AnyRefs)] : n \in 0..MaxLinksBound} :
                   \A i \in 1..(Len(f) - 1) : f[i] < f[i + 1]}}

AnySite ==
    {[NoContent EXCEPT !.internal = l] : l \in AnyLinkLists}

Sites == {"tree", "wiki", "any"}

\* the contents a successful fetch of url may return
PageContents(s, url) ==
    CASE s = "tree" -> {TreeSite(url)}
      [] s = "wiki" -> {WikiSite(url)}
      [] OTHER -> AnySite

\* ------------------------------------------------------------------------
\* sorted(): the canonical URLs that occur, in the order of their strings
\* ------------------------------------------------------------------------
UrlOrder ==
    <<U("ftp", DocsHost, <<"403", "en", "FAQ">>, <<>>, ""),
      U("http", DocsHost, <<"403", "en", "Features">>, <<>>, ""),
      Doc("FAQ"),
      [Doc("FAQ") EXCEPT !.query = <<Q("action", "edit")>>],
      Doc("Features"),
      Doc("Installation"),
      Doc("Main_page"),
      Doc("Plugins"),
      Doc("Special:Search"),
      Doc("Themes"),
      Doc("Upgrading"),
      [Doc("Upgrading") EXCEPT !.query = <<Q("lang", "")>>],
      U("https", DocsHost, <<"403", "fr", "FAQ">>, <<>>, ""),
      U("https", DocsHost, <<"501", "en", "FAQ">>, <<>>, ""),
      Main501,
      U("https", DocsHost, <<"images", "faq.png">>, <<>>, ""),
      U("https", DocsHost, <<"images", "logo.png">>, <<>>, ""),
      U("https", "moodle.org", <<"plugins">>, <<>>, ""),
      U("https", "vimeo.com", <<"1">>, <<>>, ""),
      Watch("abc"),
      U("https", "youtu.be", <<"xyz">>, <<>>, "")>>

UrlRank(url) == CHOOSE i \in 1..Len(UrlOrder) : UrlOrder[i] = url

\* the sequence holding the elements of S in that order
Sorted(S) ==
    [i \in 1..Cardinality(S) |->
        CHOOSE x \in S : Cardinality({y \in S : UrlRank(y) < UrlRank(x)}) = i - 1]

Range(seq) == {seq[i] : i \in 1..Len(seq)}

\* ------------------------------------------------------------------------
\* Link and media extraction
\* ------------------------------------------------------------------------
RECURSIVE iter_link_urls(_)
iter_link_urls(items) ==
    IF items = <<>> THEN <<>>
    ELSE IF Head(items).form = "blank" \/ Head(items).ref = NoUrl
         THEN iter_link_urls(Tail(items))
    ELSE <<Head(items).ref>> \o iter_link_urls(Tail(items))

normalize_links(base_url, items) ==
    Sorted({normalize_url(urljoin(base_url, raw)) : raw \in Range(iter_link_urls(items))})

\* href.startswith(("#", "javascript:", "mailto:", "tel:")) or empty href
SkippedHref(href) ==
    \/ href.scheme \in {"javascript", "mailto", "tel"}
    \/ href.scheme = "" /\ href.netloc = "" /\ href.path = <<>> /\ href.query = <<>>

HtmlLinks(base_url, hrefs) ==
    {link \in {normalize_url(urljoin(base_url, h)) :
                  h \in {x \in Range(hrefs) : ~SkippedHref(x)}} :
        link.scheme \in {"http", "https"}}

\* <<internal, external>>
extract_links_from_html(base_url, hrefs) ==
    <<Sorted({l \in HtmlLinks(base_url, hrefs) : l.netloc = DocsHost}),
      Sorted({l \in HtmlLinks(base_url, hrefs) : l.netloc # DocsHost})>>

extract_youtube_from_html(html_urls) ==
    {u \in Range(html_urls) : is_youtube_url(u)}

\* lines 139-152: a string is taken as it is, the empty string too; a dict
\* needs a non-empty "src" or "url" and keeps its other keys
RECURSIVE normalize_images(_, _)
normalize_images(base_url, images_raw) ==
    IF images_raw = <<>> THEN <<>>
    ELSE IF Head(images_raw).form = "blank"
            \/ (Head(images_raw).form = "dict" /\ Head(images_raw).ref = NoUrl)
         THEN normalize_images(base_url, Tail(images_raw))
    ELSE <<[src |-> normalize_url(urljoin(base_url, Head(images_raw).ref)),
            page_url |-> Head(images_raw).page_url]>>
            \o normalize_images(base_url, Tail(images_raw))

\* a sink that opens its file with mode "w"
append_jsonl_truncate(log, payload) == <<payload>>

\* lines 58-60: one line written at the end of a file opened with mode "a"
append_jsonl(log, payload) == Append(log, payload)

\* ------------------------------------------------------------------------
\* The cookies file (lines 177-192).  A JSON document is a record: type is
\* the Python type json.load gives ("list", "dict", "str"), "invalid" for a
\* file that is not JSON; cookies is the type of a dict's "cookies" entry,
\* "absent" when there is none.
\* ------------------------------------------------------------------------
Json(type, cookies) == [type |-> type, cookies |-> cookies]
PyNone == Json("NoneType", "absent")

\* --cookies-file: not given, or a path with whether it exists and what it holds
NoCookiesFile == [given |-> FALSE, exists |-> FALSE, payload |-> PyNone]
CookiesPath(exists, payload) == [given |-> TRUE, exists |-> exists, payload |-> payload]

\* lines 177-192: the cookie configuration, or the exception raised
load_cookie_config(cookies_file) ==
    IF ~cookies_file.given
    THEN [raised |-> "none", cookies |-> PyNone, storage_state |-> PyNone]
    ELSE IF ~cookies_file.exists
    THEN [raised |-> "FileNotFoundError", cookies |-> PyNone, storage_state |-> PyNone]
    ELSE IF cookies_file.payload.type = "invalid"
    THEN [raised |-> "JSONDecodeError", cookies |-> PyNone, storage_state |-> PyNone]
    ELSE IF cookies_file.payload.type = "list"
    THEN [raised |-> "none", cookies |-> cookies_file.payload, storage_state |-> PyNone]
    ELSE IF cookies_file.payload.type = "dict" /\ cookies_file.payload.cookies = "list"
    THEN [raised |-> "none", cookies |-> PyNone, storage_state |-> cookies_file.payload]
    ELSE [raised |-> "ValueError", cookies |-> PyNone, storage_state |-> PyNone]

\* ------------------------------------------------------------------------
\* State of one run of crawl_moodle_docs
\* ------------------------------------------------------------------------
VARIABLES
    start_url, docs_prefix, max_pages, max_concurrent, \* the configuration
    cookies_file, delay_seconds,
    out_dir,          \* what the four files of out_dir hold when the run starts
    site,             \* which site the fetch pool is pointed at
    pc,               \* position of the control loop
    session,          \* the AsyncWebCrawler context: "none", "open", "closed"
    frontier, queued, visited,
    discovered, success, failed,
    unique_images, unique_youtube,
    batch,            \* the urls passed to the arun_many call under way
    pending,          \* fetches of that call not yet completed
    results,          \* results of that call, in completion order
    ri,               \* index in results of the next result to process
    pages_log, images_log, youtube_log, errors_log,
    stdout,           \* the lines printed so far
    dispatched,       \* every urls argument passed to arun_many, in order
    dist,             \* discovery distance of every url enqueued so far
    browser_config,   \* the cookie configuration handed to the crawler
    raised,           \* the exception that ended the run, "none" without one
    raised_at,        \* the line of crawl_moodle_docs that raised it, 0 without one
    sleeps            \* the asyncio.sleep calls made so far

config == <<start_url, docs_prefix, max_pages, max_concurrent, site,
            cookies_file, delay_seconds, out_dir>>
traversal == <<frontier, queued, visited, discovered, success, failed,
               unique_images, unique_youtube>>
logs == <<pages_log, images_log, youtube_log, errors_log>>
call == <<batch, pending, results, ri>>
side == <<browser_config, raised, raised_at, sleeps>>
vars == <<config, pc, session, traversal, call, logs, stdout, dispatched, dist, side>>

StartURLs ==
    {Main501,
     [Doc("Main_page") EXCEPT !.query = <<Q("oldid", "5")>>, !.fragment = "top"]}
DocsPrefixes == {<<"403", "en">>, <<"501", "en">>}
CookiesFiles ==
    {NoCookiesFile,
     CookiesPath(FALSE, PyNone),
     CookiesPath(TRUE, Json("list", "absent")),
     CookiesPath(TRUE, Json("dict", "list")),
     CookiesPath(TRUE, Json("dict", "absent")),
     CookiesPath(TRUE, Json("dict", "str")),
     CookiesPath(TRUE, Json("str", "absent")),
     CookiesPath(TRUE, Json("invalid", "absent"))}
DelaySeconds == {0, 1}

\* a setup that reads the cookies file but goes on whatever it holds
SetupNoCookieCheck ==
    /\ pc = "start"
    /\ \E cookie_config \in {load_cookie_config(cookies_file)} :
          /\ browser_config' = [cookies |-> cookie_config.cookies,
                                storage_state |-> cookie_config.storage_state]
          /\ frontier' = <<normalize_url(start_url)>>
          /\ queued' = {normalize_url(start_url)}
          /\ visited' = {}
          /\ discovered' = 0 /\ success' = 0 /\ failed' = 0
          /\ unique_images' = {} /\ unique_youtube' = {}
          /\ dist' = (normalize_url(start_url) :> 0)
          /\ pc' = "enter"
          /\ UNCHANGED <<raised, raised_at>>
    /\ UNCHANGED <<config, session, call, logs, stdout, dispatched, sleeps>>

\* lines 220-239: the browser configuration, where a bad cookies file ends
\* the run (line 221), then the traversal state before the session is entered
Setup ==
    /\ pc = "start"
    /\ \E cookie_config \in {load_cookie_config(cookies_file)} :
          IF cookie_config.raised # "none"
          THEN /\ raised' = cookie_config.raised
               /\ raised_at' = 221
               /\ pc' = "error"
               /\ UNCHANGED <<traversal, dist, browser_config>>
          ELSE /\ browser_config' = [cookies |-> cookie_config.cookies,
                                     storage_state |-> cookie_config.storage_state]
               /\ frontier' = <<normalize_url(start_url)>>
               /\ queued' = {normalize_url(start_url)}
               /\ visited' = {}
               /\ discovered' = 0 /\ success' = 0 /\ failed' = 0
               /\ unique_images' = {} /\ unique_youtube' = {}
               /\ dist' = (normalize_url(start_url) :> 0)
               /\ pc' = "enter"
               /\ UNCHANGED <<raised, raised_at>>
    /\ UNCHANGED <<config, session, call, logs, stdout, dispatched, sleeps>>

\* line 241: async with AsyncWebCrawler(...) as crawler
EnterSession ==
    /\ pc = "enter"
    /\ session' = "open"
    /\ pc' = "loop"
    /\ UNCHANGED <<config, traversal, call, logs, stdout, dispatched, dist, side>>

\* line 234: page_limit is None unless max_pages > 0
HasPageLimit == max_pages > 0

\* the while condition with "or" in place of "and"
LoopConditionOr ==
    \/ frontier # <<>>
    \/ (~HasPageLimit \/ discovered < max_pages)

\* line 242: the condition of the outer while
LoopCondition ==
    /\ frontier # <<>>
    /\ (~HasPageLimit \/ discovered < max_pages)

\* the inner while with "<=" in place of "<" in the test of line 244
RECURSIVE BuildBatchOffByOne(_, _, _)
BuildBatchOffByOne(fr, vis, b) ==
    IF ~(fr # <<>> /\ Len(b) <= max_concurrent)
    THEN [frontier |-> fr, visited |-> vis, batch |-> b]
    ELSE IF HasPageLimit /\ discovered + Len(b) >= max_pages
    THEN [frontier |-> fr, visited |-> vis, batch |-> b]
    ELSE IF Head(fr) \in vis
    THEN BuildBatchOffByOne(Tail(fr), vis, b)
    ELSE BuildBatchOffByOne(Tail(fr), vis \cup {Head(fr)}, Append(b, Head(fr)))

\* the inner while without the page budget test of line 245
RECURSIVE BuildBatchNoBudget(_, _, _)
BuildBatchNoBudget(fr, vis, b) ==
    IF ~(fr # <<>> /\ Len(b) < max_concurrent)
    THEN [frontier |-> fr, visited |-> vis, batch |-> b]
    ELSE IF Head(fr) \in vis
    THEN BuildBatchNoBudget(Tail(fr), vis, b)
    ELSE BuildBatchNoBudget(Tail(fr), vis \cup {Head(fr)}, Append(b, Head(fr)))

\* lines 243-251: the inner while, from a frontier fr, a visited set vis and
\* the batch b built so far
RECURSIVE BuildBatch(_, _, _)
BuildBatch(fr, vis, b) ==
    IF ~(fr # <<>> /\ Len(b) < max_concurrent)
    THEN [frontier |-> fr, visited |-> vis, batch |-> b]
    ELSE IF HasPageLimit /\ discovered + Len(b) >= max_pages
    THEN [frontier |-> fr, visited |-> vis, batch |-> b]
    ELSE IF Head(fr) \in vis
    THEN BuildBatch(Tail(fr), vis, b)
    ELSE BuildBatch(Tail(fr), vis \cup {Head(fr)}, Append(b, Head(fr)))

\* lines 242-255: one pass of the outer while up to the arun_many call; an
\* empty batch takes the continue of line 253
Dispatch ==
    /\ pc = "loop"
    /\ LoopCondition
    /\ LET bb == BuildBatch(frontier, visited, <<>>)
       IN /\ frontier' = bb.frontier
          /\ visited' = bb.visited
          /\ IF bb.batch = <<>>
             THEN /\ pc' = "loop"
                  /\ UNCHANGED <<call, dispatched>>
             ELSE /\ pc' = "await"
                  /\ batch' = bb.batch
                  /\ pending' = Range(bb.batch)
                  /\ results' = <<>>
                  /\ ri' = 1
                  /\ dispatched' = Append(dispatched, bb.batch)
    /\ UNCHANGED <<config, session, queued, discovered, success, failed,
                   unique_images, unique_youtube, logs, stdout, dist, side>>

\* a fetch pool that counts a result as soon as its fetch completes
FetchCompleteStreaming(url, ok, content) ==
    /\ pc = "await"
    /\ url \in pending
    /\ pending' = pending \ {url}
    /\ results' = Append(results, [url |-> url, success |-> ok, content |-> content])
    /\ discovered' = discovered + 1
    /\ UNCHANGED <<config, pc, session, frontier, queued, visited, success, failed,
                   unique_images, unique_youtube, batch, ri, logs, stdout,
                   dispatched, dist, side>>

\* inside arun_many: one fetch of the batch completes, with or without success
FetchComplete(url, ok, content) ==
    /\ pc = "await"
    /\ url \in pending
    /\ pending' = pending \ {url}
    /\ results' = Append(results, [url |-> url, success |-> ok, content |-> content])
    /\ UNCHANGED <<config, pc, session, traversal, batch, ri, logs, stdout,
                   dispatched, dist, side>>

\* line 255: arun_many returns once every fetch of the batch has completed
ReturnResults ==
    /\ pc = "await"
    /\ pending = {}
    /\ pc' = "process"
    /\ ri' = 1
    /\ UNCHANGED <<config, session, traversal, batch, pending, results, logs,
                   stdout, dispatched, dist, side>>

\* an enqueue loop that stops after the first link it appends
RECURSIVE EnqueueFirstOnly(_, _, _, _, _, _)
EnqueueFirstOnly(links, fr, q, ds, vis, d) ==
    IF links = <<>> THEN [frontier |-> fr, queued |-> q, dist |-> ds]
    ELSE LET link == Head(links)
         IN IF link \in vis \/ link \in q
            THEN EnqueueFirstOnly(Tail(links), fr, q, ds, vis, d)
            ELSE IF ~is_moodle_doc_url(link, docs_prefix) \/ should_skip_url(link)
            THEN EnqueueFirstOnly(Tail(links), fr, q, ds, vis, d)
            ELSE [frontier |-> Append(fr, link), queued |-> q \cup {link},
                  dist |-> ds @@ (link :> d + 1)]

\* the enqueue loop with a test of line 278 that looks at visited only
RECURSIVE EnqueueVisitedOnly(_, _, _, _, _, _)
EnqueueVisitedOnly(links, fr, q, ds, vis, d) ==
    IF links = <<>> THEN [frontier |-> fr, queued |-> q, dist |-> ds]
    ELSE LET link == Head(links)
         IN IF link \in vis
            THEN EnqueueVisitedOnly(Tail(links), fr, q, ds, vis, d)
            ELSE IF ~is_moodle_doc_url(link, docs_prefix) \/ should_skip_url(link)
            THEN EnqueueVisitedOnly(Tail(links), fr, q, ds, vis, d)
            ELSE EnqueueVisitedOnly(Tail(links), Append(fr, link), q \cup {link},
                                    (link :> d + 1) @@ ds, vis, d)

\* the enqueue loop without the visited/queued test of line 278
RECURSIVE EnqueueNoDedup(_, _, _, _, _, _)
EnqueueNoDedup(links, fr, q, ds, vis, d) ==
    IF links = <<>> THEN [frontier |-> fr, queued |-> q, dist |-> ds]
    ELSE LET link == Head(links)
         IN IF ~is_moodle_doc_url(link, docs_prefix) \/ should_skip_url(link)
            THEN EnqueueNoDedup(Tail(links), fr, q, ds, vis, d)
            ELSE EnqueueNoDedup(Tail(links), Append(fr, link), q \cup {link},
                                (link :> d + 1) @@ ds, vis, d)

\* lines 277-283: the enqueue loop over internal_urls, for a page at
\* discovery distance d; vis is the visited set
RECURSIVE Enqueue(_, _, _, _, _, _)
Enqueue(links, fr, q, ds, vis, d) ==
    IF links = <<>> THEN [frontier |-> fr, queued |-> q, dist |-> ds]
    ELSE LET link == Head(links)
         IN IF link \in vis \/ link \in q
            THEN Enqueue(Tail(links), fr, q, ds, vis, d)
            ELSE IF ~is_moodle_doc_url(link, docs_prefix) \/ should_skip_url(link)
            THEN Enqueue(Tail(links), fr, q, ds, vis, d)
            ELSE Enqueue(Tail(links), Append(fr, link), q \cup {link},
                         ds @@ (link :> d + 1), vis, d)

\* line 291: {"page_url": url, **image}; a "page_url" key of the image comes
\* last and replaces the page's URL
ImageRecord(url, image) ==
    [page_url |-> IF image.page_url # NoUrl THEN image.page_url ELSE url,
     src |-> image.src]

\* the image loop without the unique_images.add of line 290
RECURSIVE RecordImagesNoMark(_, _, _, _)
RecordImagesNoMark(images, uniq, log, url) ==
    IF images = <<>> THEN [unique |-> uniq, log |-> log]
    ELSE IF Head(images).src \in uniq
         THEN RecordImagesNoMark(Tail(images), uniq, log, url)
    ELSE RecordImagesNoMark(Tail(images), uniq,
                            Append(log, ImageRecord(url, Head(images))), url)

\* lines 286-291: the images of one page against unique_images
RECURSIVE RecordImages(_, _, _, _)
RecordImages(images, uniq, log, url) ==
    IF images = <<>> THEN [unique |-> uniq, log |-> log]
    ELSE IF Head(images).src \in uniq
         THEN RecordImages(Tail(images), uniq, log, url)
    ELSE RecordImages(Tail(images), uniq \cup {Head(images).src},
                      append_jsonl(log, ImageRecord(url, Head(images))), url)

\* lines 297-301: the sorted video links of one page against unique_youtube
RECURSIVE RecordYoutube(_, _, _, _)
RecordYoutube(links, uniq, log, url) ==
    IF links = <<>> THEN [unique |-> uniq, log |-> log]
    ELSE IF Head(links) \in uniq
         THEN RecordYoutube(Tail(links), uniq, log, url)
    ELSE RecordYoutube(Tail(links), uniq \cup {Head(links)},
                       append_jsonl(log, [page_url |-> url, youtube_url |-> Head(links)]),
                       url)

\* lines 270-275: <<internal_urls, external_urls>> of a successful result
PageLinks(url, content) ==
    LET internal_urls == normalize_links(url, content.internal)
        external_urls == normalize_links(url, content.external)
    IN IF internal_urls = <<>> /\ external_urls = <<>>
       THEN extract_links_from_html(url, content.hrefs)
       ELSE <<internal_urls, external_urls>>

\* lines 293-295
YoutubeLinks(external_urls, content) ==
    {normalize_url(l) :
        l \in {x \in Range(external_urls) : is_youtube_url(x)}
              \cup extract_youtube_from_html(content.html_urls)}

\* a failed result that is put back for another attempt
ProcessFailureRetry(url, result) ==
    /\ failed' = failed + 1
    /\ errors_log' = Append(errors_log, [url |-> url, error |-> "error_message"])
    /\ frontier' = Append(frontier, url)
    /\ visited' = visited \ {url}
    /\ UNCHANGED <<queued, success, unique_images,
                   unique_youtube, pages_log, images_log, youtube_log, dist>>

\* a failed result that is counted but leaves no error record
ProcessFailureSilent(url, result) ==
    /\ failed' = failed + 1
    /\ UNCHANGED <<frontier, queued, visited, success, unique_images, unique_youtube,
                   pages_log, images_log, youtube_log, errors_log, dist>>

\* lines 260-263: a failed result
ProcessFailure(url, result) ==
    /\ failed' = failed + 1
    /\ errors_log' = append_jsonl(errors_log, [url |-> url, error |-> "error_message"])
    /\ UNCHANGED <<frontier, queued, visited, success, unique_images,
                   unique_youtube, pages_log, images_log, youtube_log, dist>>

\* lines 311-322: the record of one page in pages.jsonl
PageRecord(url, links, images, youtube_links) ==
    [url |-> url, internal_links |-> links[1], external_links |-> links[2],
     images |-> images, youtube_links |-> youtube_links]

\* lines 265-322: a successful result
ProcessSuccess(url, result) ==
    \E links \in {PageLinks(url, result.content)},
       images \in {normalize_images(url, result.content.images)} :
    \E youtube_links \in {Sorted(YoutubeLinks(links[2], result.content))},
       enq \in {Enqueue(links[1], frontier, queued, dist, visited, dist[url])},
       img \in {RecordImages(images, unique_images, images_log, url)} :
    \E yt \in {RecordYoutube(youtube_links, unique_youtube, youtube_log, url)} :
       /\ success' = success + 1
       /\ frontier' = enq.frontier
       /\ queued' = enq.queued
       /\ dist' = enq.dist
       /\ unique_images' = img.unique
       /\ images_log' = img.log
       /\ unique_youtube' = yt.unique
       /\ youtube_log' = yt.log
       /\ pages_log' = append_jsonl(pages_log,
                                    PageRecord(url, links, images, youtube_links))
       /\ UNCHANGED <<visited, failed, errors_log>>

\* the for loop with "break" in place of the "continue" of line 263
ProcessResultBreak ==
    /\ pc = "process"
    /\ ri <= Len(results)
    /\ LET result == results[ri]
           url == normalize_url(result.url)
       IN /\ discovered' = discovered + 1
          /\ IF ~result.success
             THEN ProcessFailure(url, result) /\ ri' = Len(results) + 1
             ELSE ProcessSuccess(url, result) /\ ri' = ri + 1
    /\ UNCHANGED <<config, pc, session, batch, pending, results, stdout, dispatched,
                   side>>

\* lines 256-322: one pass of the for loop over results
ProcessResult ==
    /\ pc = "process"
    /\ ri <= Len(results)
    /\ LET result == results[ri]
           url == normalize_url(result.url)
       IN /\ discovered' = discovered + 1
          /\ IF ~result.success
             THEN ProcessFailure(url, result)
             ELSE ProcessSuccess(url, result)
    /\ ri' = ri + 1
    /\ UNCHANGED <<config, pc, session, batch, pending, results, stdout, dispatched,
                   side>>

\* a loop tail that prints the progress line first and sleeps afterwards
DelayAfterProgress ==
    /\ pc = "process"
    /\ ri > Len(results)
    /\ stdout' = Append(stdout,
          [line |-> "Processed", discovered |-> discovered, success |-> success,
           failed |-> failed, queue |-> Len(frontier),
           youtube |-> Cardinality(unique_youtube),
           images |-> Cardinality(unique_images)])
    /\ pc' = "progress"
    /\ UNCHANGED <<config, session, traversal, call, logs, dispatched, dist, side>>

\* lines 324-325: after the last result of the batch, the sleep between
\* batches when delay_seconds > 0
Delay ==
    /\ pc = "process"
    /\ ri > Len(results)
    /\ sleeps' = IF delay_seconds > 0 THEN sleeps + 1 ELSE sleeps
    /\ pc' = "progress"
    /\ UNCHANGED <<config, session, traversal, call, logs, stdout, dispatched, dist,
                   browser_config, raised, raised_at>>

\* lines 327-330: the progress line that ends one pass of the outer while
EndBatch ==
    /\ pc = "progress"
    /\ stdout' = Append(stdout,
          [line |-> "Processed", discovered |-> discovered, success |-> success,
           failed |-> failed, queue |-> Len(frontier),
           youtube |-> Cardinality(unique_youtube),
           images |-> Cardinality(unique_images)])
    /\ pc' = "loop"
    /\ UNCHANGED <<config, session, traversal, call, logs, dispatched, dist, side>>

\* lines 242, 241: the loop condition is false and the async with block is
\* left, which closes the session
ExitLoop ==
    /\ pc = "loop"
    /\ ~LoopCondition
    /\ session' = "closed"
    /\ pc' = "summary"
    /\ UNCHANGED <<config, traversal, call, logs, stdout, dispatched, dist, side>>

\* lines 332-335: the final summary, printed after the async with block
PrintSummary ==
    /\ pc = "summary"
    /\ stdout' = Append(stdout,
          [line |-> "Crawl finished.", discovered |-> discovered, success |-> success,
           failed |-> failed, queue |-> Len(frontier),
           youtube |-> Cardinality(unique_youtube),
           images |-> Cardinality(unique_images)])
    /\ pc' = "done"
    /\ UNCHANGED <<config, session, traversal, call, logs, dispatched, dist, side>>

\* line 291 raising at an image not yet in unique_images: the images before
\* it are recorded, the image itself is in the set (line 290) without a record
ImageRaiseOutcomes(images, uniq, log, url) ==
    {[unique |-> RecordImages(SubSeq(images, 1, i - 1), uniq, log, url).unique
                    \cup {images[i].src},
      log |-> RecordImages(SubSeq(images, 1, i - 1), uniq, log, url).log] :
       i \in {j \in 1..Len(images) :
                images[j].src \notin
                    RecordImages(SubSeq(images, 1, j - 1), uniq, log, url).unique}}

\* line 301 raising at a video link not yet in unique_youtube
YoutubeRaiseOutcomes(links, uniq, log, url) ==
    {[unique |-> RecordYoutube(SubSeq(links, 1, i - 1), uniq, log, url).unique
                    \cup {links[i]},
      log |-> RecordYoutube(SubSeq(links, 1, i - 1), uniq, log, url).log] :
       i \in {j \in 1..Len(links) :
                links[j] \notin
                    RecordYoutube(SubSeq(links, 1, j - 1), uniq, log, url).unique}}

\* the statements of the for loop body at which an exception is taken
RaiseLines == {258, 262, 270, 285, 291, 293, 301, 308}

\* lines 257-308: the part of one pass of the for loop that has run when the
\* statement of the given line raises
RaiseInResult(line) ==
    /\ pc = "process"
    /\ ri <= Len(results)
    /\ discovered' = discovered + 1
    /\ LET result == results[ri]
           url == normalize_url(result.url)
           links == PageLinks(url, result.content)
           images == normalize_images(url, result.content.images)
           youtube_links == Sorted(YoutubeLinks(links[2], result.content))
           enq == Enqueue(links[1], frontier, queued, dist, visited, dist[url])
           img == RecordImages(images, unique_images, images_log, url)
           yt == RecordYoutube(youtube_links, unique_youtube, youtube_log, url)
       IN /\ line # 258 => (line = 262 <=> ~result.success)
          /\ failed' = IF line = 262 THEN failed + 1 ELSE failed
          /\ success' = IF line \in {258, 262} THEN success ELSE success + 1
          /\ \E e \in (IF line \in {258, 262, 270}
                       THEN {[frontier |-> frontier, queued |-> queued, dist |-> dist]}
                       ELSE {enq}) :
                /\ frontier' = e.frontier
                /\ queued' = e.queued
                /\ dist' = e.dist
          /\ \E m \in (IF line \in {258, 262, 270, 285}
                       THEN {[unique |-> unique_images, log |-> images_log]}
                       ELSE IF line = 291
                       THEN ImageRaiseOutcomes(images, unique_images, images_log, url)
                       ELSE {img}) :
                /\ unique_images' = m.unique
                /\ images_log' = m.log
          /\ \E y \in (IF line \in {258, 262, 270, 285, 291, 293}
                       THEN {[unique |-> unique_youtube, log |-> youtube_log]}
                       ELSE IF line = 301
                       THEN YoutubeRaiseOutcomes(youtube_links, unique_youtube,
                                                 youtube_log, url)
                       ELSE {yt}) :
                /\ unique_youtube' = y.unique
                /\ youtube_log' = y.log
    /\ UNCHANGED <<visited, pages_log, errors_log, batch, pending, results, ri>>

\* the places of the body of the async with block where an exception is
\* taken: the await of arun_many (line 255), at the call, while fetches are
\* pending or when the last one has completed, with no result bound; a
\* statement of the for loop body; the sleep (line 325); the progress print
\* (line 327)
Raising ==
    \/ /\ pc = "await"
       /\ raised_at' = 255
       /\ UNCHANGED <<traversal, call, logs, dist>>
    \/ \E line \in RaiseLines : RaiseInResult(line) /\ raised_at' = line
    \/ /\ pc = "process" /\ ri > Len(results) /\ delay_seconds > 0
       /\ raised_at' = 325
       /\ UNCHANGED <<traversal, call, logs, dist>>
    \/ /\ pc = "progress"
       /\ raised_at' = 327
       /\ UNCHANGED <<traversal, call, logs, dist>>

\* an exception raised in the body of the async with block: what the body
\* has done so far stays, and the block's exit is awaited next
RaiseInBatch ==
    /\ Raising
    /\ raised' = "Exception"
    /\ pc' = "unwind"
    /\ UNCHANGED <<config, session, stdout, dispatched, browser_config, sleeps>>

\* an exit on an exception that leaves the session as it is
CloseOnRaiseLeak ==
    /\ pc = "unwind"
    /\ pc' = "error"
    /\ UNCHANGED <<config, session, traversal, call, logs, stdout, dispatched, dist,
                   side>>

\* line 241: the exit of the async with block on an exception closes the
\* session, and the exception ends crawl_moodle_docs without the summary
CloseOnRaise ==
    /\ pc = "unwind"
    /\ session' = "closed"
    /\ pc' = "error"
    /\ UNCHANGED <<config, traversal, call, logs, stdout, dispatched, dist, side>>

\* line 241: the exit of the block raises when the loop has ended
RaiseOnExit ==
    /\ pc = "loop"
    /\ ~LoopCondition
    /\ session' = "closed"
    /\ raised' = "Exception"
    /\ raised_at' = 241
    /\ pc' = "error"
    /\ UNCHANGED <<config, traversal, call, logs, stdout, dispatched, dist,
                   browser_config, sleeps>>

\* line 241: entering the block raises; no session is held and no exit runs
RaiseOnEnter ==
    /\ pc = "enter"
    /\ raised' = "Exception"
    /\ raised_at' = 241
    /\ pc' = "error"
    /\ UNCHANGED <<config, session, traversal, call, logs, stdout, dispatched, dist,
                   browser_config, sleeps>>

\* lines 212, 220, 342: out_dir is a parameter with a fixed default, and
\* ensure_dirs creates what is missing of it and empties nothing
EmptyDir == [pages |-> <<>>, images |-> <<>>, youtube |-> <<>>, errors |-> <<>>]

\* lines 277-322 for one page of a call made earlier: the traversal state
\* and the four files after the page, from those before it
EarlierRecords(st, url, links, images, youtube_links) ==
    CHOOSE after \in
        {[frontier |-> enq.frontier, queued |-> enq.queued,
          visited |-> st.visited \cup {url},
          unique_images |-> img.unique, unique_youtube |-> yt.unique,
          files |-> [pages |-> append_jsonl(st.files.pages,
                                            PageRecord(url, links, images, youtube_links)),
                     images |-> img.log,
                     youtube |-> yt.log,
                     errors |-> st.files.errors]] :
           enq \in {Enqueue(links[1], Tail(st.frontier), st.queued, <<>>,
                            st.visited \cup {url}, 0)},
           img \in {RecordImages(images, st.unique_images, st.files.images, url)},
           yt \in {RecordYoutube(youtube_links, st.unique_youtube,
                                 st.files.youtube, url)}} : TRUE

\* lines 243-295 for that page, the head of the frontier, whose fetch succeeded
EarlierPage(st) ==
    LET url == Head(st.frontier)
        contents == PageContents(site, url)
    IN CHOOSE after \in
           {EarlierRecords(st, url, links, images, youtube_links) :
               links \in {PageLinks(url, c) : c \in contents},
               images \in {normalize_images(url, c.images) : c \in contents},
               youtube_links \in {Sorted(YoutubeLinks(PageLinks(url, c)[2], c)) :
                                     c \in contents}} : TRUE

\* lines 242-322, for a call made earlier with the same start_url, docs_prefix
\* and max_pages and a positive max_concurrent, whose fetches all succeeded and
\* whose results came back in the order of their batch: the four files it
\* leaves, page after page in the order of the frontier
RECURSIVE EarlierRun(_)
EarlierRun(st) ==
    IF st.frontier = <<>> \/ (HasPageLimit /\ Cardinality(st.visited) >= max_pages)
    THEN st.files
    ELSE IF Head(st.frontier) \in st.visited
    THEN EarlierRun([st EXCEPT !.frontier = Tail(st.frontier)])
    ELSE CHOOSE files \in {EarlierRun(after) : after \in {EarlierPage(st)}} : TRUE

\* the output directories a run is started on: a fresh one, and on the two
\* fixed sites the one an earlier call with the same arguments has written
OutDirs ==
    {EmptyDir} \cup
    IF site = "any" THEN {}
    ELSE {EarlierRun([frontier |-> <<normalize_url(start_url)>>,
                      queued |-> {normalize_url(start_url)},
                      visited |-> {},
                      unique_images |-> {}, unique_youtube |-> {},
                      files |-> EmptyDir])}

Init ==
    /\ start_url \in StartURLs
    /\ docs_prefix \in DocsPrefixes
    /\ max_pages \in 0..MaxPagesBound
    /\ max_concurrent \in 0..MaxConcurrentBound
    /\ site \in Sites
    \* the cookies files and the delay are tried on the two fixed sites
    /\ cookies_file \in IF site = "any" THEN {NoCookiesFile} ELSE CookiesFiles
    /\ delay_seconds \in IF site = "any" THEN {0} ELSE DelaySeconds
    /\ out_dir \in OutDirs
    /\ pc = "start"
    /\ session = "none"
    /\ frontier = <<>> /\ queued = {} /\ visited = {}
    /\ discovered = 0 /\ success = 0 /\ failed = 0
    /\ unique_images = {} /\ unique_youtube = {}
    /\ batch = <<>> /\ pending = {} /\ results = <<>> /\ ri = 1
    \* lines 44-60: the files are created when missing and never emptied
    /\ pages_log = out_dir.pages /\ images_log = out_dir.images
    /\ youtube_log = out_dir.youtube /\ errors_log = out_dir.errors
    /\ stdout = <<>>
    /\ dispatched = <<>>
    /\ dist = <<>>
    /\ browser_config = [cookies |-> PyNone, storage_state |-> PyNone]
    /\ raised = "none"
    /\ raised_at = 0
    /\ sleeps = 0

\* the steps of a run in which nothing is raised inside the async with block
Crawl ==
    \/ Setup
    \/ EnterSession
    \/ Dispatch
    \/ \E url \in pending :
          \/ \E content \in PageContents(site, url) : FetchComplete(url, TRUE, content)
          \/ FetchComplete(url, FALSE, NoContent)
    \/ ReturnResults
    \/ ProcessResult
    \/ Delay
    \/ EndBatch
    \/ ExitLoop
    \/ PrintSummary

Next ==
    \/ Crawl
    \/ RaiseOnEnter
    \/ RaiseInBatch
    \/ CloseOnRaise
    \/ RaiseOnExit

Spec == Init /\ [][Next]_vars

\* the runs without a page ceiling and without a cookies file, where the
\* event loop runs the control loop whenever it can continue, every fetch of
\* a dispatched batch completes and nothing is raised
UnlimitedInit ==
    /\ Init
    /\ max_pages = 0
    /\ cookies_file = NoCookiesFile
FairSpec == UnlimitedInit /\ [][Crawl]_vars /\ WF_vars(Crawl)

\* ------------------------------------------------------------------------
\* Derived views of the state
\* ------------------------------------------------------------------------
RECURSIVE Flatten(_)
Flatten(seqs) == IF seqs = <<>> THEN <<>> ELSE Head(seqs) \o Flatten(Tail(seqs))

\* every URL handed to the fetch pool so far, in dispatch order
AllDispatched == Flatten(dispatched)

\* the records a log has gained over what its file held when the run started
OfRun(log, file) == SubSeq(log, Len(file) + 1, Len(log))
PagesOfRun == OfRun(pages_log, out_dir.pages)
ImagesOfRun == OfRun(images_log, out_dir.images)
YoutubeOfRun == OfRun(youtube_log, out_dir.youtube)
ErrorsOfRun == OfRun(errors_log, out_dir.errors)

NoDuplicates(seq) == \A i, j \in 1..Len(seq) : i # j => seq[i] # seq[j]

\* the arun_many call in which url was dispatched
BatchIndex(url) == CHOOSE k \in 1..Len(dispatched) : url \in Range(dispatched[k])

\* ------------------------------------------------------------------------
\* C1: over a whole run no canonical URL is handed to the fetch pool more
\* than once, failed fetches and re-discovered links included.
\* ------------------------------------------------------------------------
C1_NoDuplicateDispatch == NoDuplicates(AllDispatched)

\* a URL whose fetch failed is linked again by a page fetched in a later batch
C1_Witness ==
    /\ pc = "done"
    /\ \E e \in Range(ErrorsOfRun), p \in Range(PagesOfRun) :
          /\ e.url \in Range(p.internal_links)
          /\ BatchIndex(p.url) > BatchIndex(e.url)

\* ------------------------------------------------------------------------
\* C2: with a page ceiling N > 0 at most N URLs are ever dispatched; with
\* N = 0 the loop ends only on an empty frontier.
\* ------------------------------------------------------------------------
C2_PageCeiling ==
    /\ max_pages > 0 => Len(AllDispatched) <= max_pages
    /\ (max_pages = 0 /\ pc = "done") => frontier = <<>>

\* the ceiling ended a run that still had queued URLs, with full batches
C2_Witness ==
    /\ pc = "done"
    /\ max_pages > 1 /\ max_concurrent > 1
    /\ Len(AllDispatched) = max_pages
    /\ frontier # <<>>

\* ------------------------------------------------------------------------
\* C3: without a page ceiling and with max_concurrent >= 1, when every
\* dispatched batch resolves, the control loop eventually exits, and it
\* exits with an empty frontier.
\* ------------------------------------------------------------------------
C3_Termination ==
    (max_pages = 0 /\ max_concurrent >= 1) ~> (pc = "done" /\ frontier = <<>>)

\* an unlimited crawl of a site whose pages link back to fetched pages ended
C3_Witness ==
    /\ pc = "done" /\ frontier = <<>>
    /\ max_pages = 0 /\ max_concurrent >= 1
    /\ Len(PagesOfRun) >= 3
    /\ \E i, j \in 1..Len(PagesOfRun) :
          /\ i < j
          /\ PagesOfRun[i].url \in Range(PagesOfRun[j].internal_links)
          /\ PagesOfRun[j].url \in Range(PagesOfRun[i].internal_links)

\* ------------------------------------------------------------------------
\* C4: URLs are dispatched in non-decreasing order of discovery distance,
\* so the frontier is always sorted by distance, also when the results of a
\* batch come back in another order than the batch was dispatched in.
\* ------------------------------------------------------------------------
SortedByDistance(seq) ==
    \A i, j \in 1..Len(seq) : i < j => dist[seq[i]] <= dist[seq[j]]

C4_BfsOrder ==
    /\ SortedByDistance(frontier)
    /\ SortedByDistance(AllDispatched)

\* ------------------------------------------------------------------------
\* C5: every canonical URL is in exactly one of the states unseen, queued,
\* in-flight and visited; the frontier holds no URL twice and none that is
\* in-flight or visited; a URL that has left the frontier never re-enters it.
\* ------------------------------------------------------------------------
\* visited: the result of the URL has been processed
Processed ==
    {PagesOfRun[i].url : i \in 1..Len(PagesOfRun)}
        \cup {ErrorsOfRun[i].url : i \in 1..Len(ErrorsOfRun)}
\* in-flight: selected into the current batch, result not yet processed
InFlight == Range(batch) \ Processed
\* queued: in the frontier, not yet selected
InQueue == Range(frontier)

ExclusiveStates ==
    /\ NoDuplicates(frontier)
    /\ InQueue \cap InFlight = {}
    /\ InQueue \cap Processed = {}
    /\ visited = InFlight \cup Processed
    /\ InQueue \cup visited \subseteq queued

NeverRequeued ==
    /\ queued \subseteq queued'
    /\ \A u \in Range(frontier') \ Range(frontier) : u \notin queued /\ u \notin visited

C5_ExclusiveMembership == []ExclusiveStates /\ [][NeverRequeued]_vars

\* queued, in-flight and visited URLs exist at once, and a page just processed
\* linked a URL that was already visited
C5_Witness ==
    /\ pc = "process" /\ ri = 2 /\ Len(results) = 2
    /\ InQueue # {} /\ InFlight # {} /\ Processed # {}
    /\ results[1].success
    /\ \E u \in Processed \ {results[1].url} :
          u \in Range(PagesOfRun[Len(PagesOfRun)].internal_links)

\* ------------------------------------------------------------------------
\* C6: for every start URL and scope prefix, every URL that is ever in the
\* frontier or dispatched is in scope and not skip-flagged.
\* ------------------------------------------------------------------------
Eligible(url) == is_moodle_doc_url(url, docs_prefix) /\ ~should_skip_url(url)

C6_AllEligible ==
    \A u \in Range(frontier) \cup Range(AllDispatched) : Eligible(u)

\* ------------------------------------------------------------------------
\* C7: a batch with f failed and s successful results, in any order, adds
\* exactly f error records and s page records; results after a failed one are
\* still processed, the loop goes on to later batches, and only links of
\* successful results enter the frontier.
\* ------------------------------------------------------------------------
\* the results of the current batch processed so far, by outcome
DoneResults(ok) == {i \in 1..(ri - 1) : i <= Len(results) /\ results[i].success = ok}
RecordsFor(log, urls) == Cardinality({i \in 1..Len(log) : log[i].url \in urls})
\* internal_urls of a result (lines 270-275): the links the enqueue loop of
\* lines 277-283 goes over
Targets(result) ==
    Range(PageLinks(normalize_url(result.url), result.content)[1])

BatchRecords ==
    /\ pc = "process" =>
          /\ Len(results) = Len(batch)
          /\ RecordsFor(ErrorsOfRun, Range(batch)) = Cardinality(DoneResults(FALSE))
          /\ RecordsFor(PagesOfRun, Range(batch)) = Cardinality(DoneResults(TRUE))
    /\ pc = "done" => ~LoopCondition

IsolatedStep ==
    IF pc = "process" /\ ri <= Len(results) /\ raised' # "none"
    THEN \* the pass over results[ri] is cut short by an exception
         /\ errors_log' = errors_log /\ pages_log' = pages_log
         /\ Len(frontier') >= Len(frontier)
         /\ SubSeq(frontier', 1, Len(frontier)) = frontier
         /\ \A i \in (Len(frontier) + 1)..Len(frontier') :
               results[ri].success /\ frontier'[i] \in Targets(results[ri])
    ELSE IF pc = "process" /\ ri <= Len(results)
    THEN /\ ri' = ri + 1
         /\ IF results[ri].success
            THEN /\ Len(pages_log') = Len(pages_log) + 1
                 /\ pages_log'[Len(pages_log')].url = results[ri].url
                 /\ errors_log' = errors_log
                 /\ Len(frontier') >= Len(frontier)
                 /\ SubSeq(frontier', 1, Len(frontier)) = frontier
                 /\ \A i \in (Len(frontier) + 1)..Len(frontier') :
                       frontier'[i] \in Targets(results[ri])
            ELSE /\ Len(errors_log') = Len(errors_log) + 1
                 /\ errors_log'[Len(errors_log')].url = results[ri].url
                 /\ pages_log' = pages_log
                 /\ frontier' = frontier /\ queued' = queued
    ELSE /\ errors_log' = errors_log /\ pages_log' = pages_log
         /\ pc # "start" => Range(frontier') \subseteq Range(frontier)

C7_FailureIsolation == []BatchRecords /\ [][IsolatedStep]_vars

\* a batch whose first result failed and whose second succeeded and enqueued
\* a link has been processed, and the loop is about to form the next batch
C7_Witness ==
    /\ pc = "loop" /\ LoopCondition
    /\ Len(results) = 2 /\ ~results[1].success /\ results[2].success
    /\ frontier[Len(frontier)] \in Targets(results[2])
    /\ ErrorsOfRun[Len(ErrorsOfRun)].url = results[1].url
    /\ PagesOfRun[Len(PagesOfRun)].url = results[2].url

\* ------------------------------------------------------------------------
\* C8: among the records a run appends, the images log holds at most one
\* record per canonical image URL and the video-links log at most one per
\* canonical video URL, and the record names the page processed first in the
\* run among the pages that reference the URL.
\* ------------------------------------------------------------------------
ImageSrcs(page) == {page.images[i].src : i \in 1..Len(page.images)}
\* the successful result whose pass an exception cut short, if any: its media
\* may be recorded although it has no page record
CutShort ==
    IF raised_at \in RaiseLines \ {258, 262}
    THEN LET url == normalize_url(results[ri].url)
             content == results[ri].content
         IN <<[url |-> url,
               images |-> normalize_images(url, content.images),
               youtube_links |->
                   Sorted(YoutubeLinks(PageLinks(url, content)[2], content))]>>
    ELSE <<>>
\* the pages whose results were processed, in processing order
ProcessedPages ==
    [i \in 1..Len(PagesOfRun) |->
        [url |-> PagesOfRun[i].url, images |-> PagesOfRun[i].images,
         youtube_links |-> PagesOfRun[i].youtube_links]] \o CutShort
PageIndex(url) == CHOOSE i \in 1..Len(ProcessedPages) : ProcessedPages[i].url = url

C8_MediaDedup ==
    /\ \A i, j \in 1..Len(ImagesOfRun) :
          i # j => ImagesOfRun[i].src # ImagesOfRun[j].src
    /\ \A i, j \in 1..Len(YoutubeOfRun) :
          i # j => YoutubeOfRun[i].youtube_url # YoutubeOfRun[j].youtube_url
    /\ \A m \in Range(ImagesOfRun) :
          /\ m.src = normalize_url(m.src)
          /\ \E i \in 1..Len(ProcessedPages) : ProcessedPages[i].url = m.page_url
          /\ m.src \in ImageSrcs(ProcessedPages[PageIndex(m.page_url)])
          /\ \A j \in 1..(PageIndex(m.page_url) - 1) :
                m.src \notin ImageSrcs(ProcessedPages[j])
    /\ \A m \in Range(YoutubeOfRun) :
          /\ m.youtube_url = normalize_url(m.youtube_url)
          /\ \E i \in 1..Len(ProcessedPages) : ProcessedPages[i].url = m.page_url
          /\ m.youtube_url \in Range(ProcessedPages[PageIndex(m.page_url)].youtube_links)
          /\ \A j \in 1..(PageIndex(m.page_url) - 1) :
                m.youtube_url \notin Range(ProcessedPages[j].youtube_links)
    /\ \A i \in 1..Len(PagesOfRun) :
          /\ \A src \in ImageSrcs(PagesOfRun[i]) : \E m \in Range(ImagesOfRun) : m.src = src
          /\ \A y \in Range(PagesOfRun[i].youtube_links) :
                \E m \in Range(YoutubeOfRun) : m.youtube_url = y

\* C8 as stated, over the whole of each file: the images log holds at most
\* one record per canonical image URL and the video-links log at most one per
\* canonical video URL, attributed to the page processed first. A run started
\* on the files of an earlier run appends the earlier run's media again.
C8_WholeLogDedup ==
    /\ \A i, j \in 1..Len(images_log) :
          i # j => images_log[i].src # images_log[j].src
    /\ \A i, j \in 1..Len(youtube_log) :
          i # j => youtube_log[i].youtube_url # youtube_log[j].youtube_url
    /\ C8_MediaDedup

\* two pages reference the same image and two pages the same video, and a
\* page whose image list holds an empty string is recorded as its own image
C8_Witness ==
    /\ \E i, j \in 1..Len(PagesOfRun) :
          i < j /\ ImageSrcs(PagesOfRun[i]) \cap ImageSrcs(PagesOfRun[j]) # {}
    /\ \E i, j \in 1..Len(PagesOfRun) :
          i < j /\ Range(PagesOfRun[i].youtube_links)
                      \cap Range(PagesOfRun[j].youtube_links) # {}
    /\ Len(ImagesOfRun) >= 3 /\ Len(YoutubeOfRun) >= 2
    /\ \E m \in Range(ImagesOfRun) : m.src = m.page_url
    /\ out_dir.images # <<>> /\ out_dir.youtube # <<>>

\* ------------------------------------------------------------------------
\* C9: at most max_concurrent URLs are in flight, all of one batch, and no
\* URL of a new batch is selected or dispatched while a URL of the previous
\* batch is unresolved or has an unprocessed result.
\* ------------------------------------------------------------------------
BoundedBatch ==
    /\ Cardinality(pending) <= max_concurrent
    /\ Cardinality(InFlight) <= max_concurrent
    /\ pending \subseteq InFlight
    /\ dispatched # <<>> => InFlight \subseteq Range(dispatched[Len(dispatched)])

SequentialBatches ==
    (dispatched' # dispatched \/ visited' # visited) =>
        /\ pending = {} /\ InFlight = {}
        /\ ri > Len(results)

C9_SequentialBatches == []BoundedBatch /\ [][SequentialBatches]_vars

\* a full batch is in flight after an earlier batch was processed
C9_Witness ==
    /\ pc = "await" /\ max_concurrent = 2 /\ Cardinality(pending) = 2
    /\ Len(dispatched) >= 2

\* ------------------------------------------------------------------------
\* C10: the frontier, the queued and visited sets, the counters and the four
\* logs change only in steps taken when no fetch is in flight: from the
\* dispatch of a batch until arun_many returns they are unchanged, whatever
\* the order in which the fetches complete.
\* ------------------------------------------------------------------------
FrozenWhileAwaiting == (pc = "await" \/ pending # {}) => UNCHANGED <<traversal, logs>>

\* fetches are pending only while arun_many is awaited, or left behind by an
\* exception that ended that await
C10_SingleWriter ==
    /\ [](pending # {} => (pc = "await" \/ (pc \in {"unwind", "error"} /\ raised = "Exception")))
    /\ [][FrozenWhileAwaiting]_vars

\* the second URL of a batch completed first while the first is still in flight
C10_Witness ==
    /\ pc = "await" /\ Len(batch) = 2
    /\ pending = {batch[1]}
    /\ Len(results) = 1 /\ results[1].url = batch[2]
    /\ frontier # <<>> /\ Len(PagesOfRun) >= 1

\* ------------------------------------------------------------------------
\* C11: when the fetch pool returns one result per dispatched URL, after
\* every fully processed batch the run has appended one pages record per
\* successful result and one errors record per failed result: the pages
\* records appended number success, the errors records appended number
\* failed, the two together number discovered, which is the number of URLs
\* dispatched so far, and no dispatched URL has had both a page and an error
\* record appended.
\* ------------------------------------------------------------------------
LogUrls(log) == {log[i].url : i \in 1..Len(log)}
BatchFullyProcessed ==
    \/ pc \in {"progress", "loop", "summary", "done"}
    \/ pc = "process" /\ ri > Len(results)
    \/ pc \in {"unwind", "error"} /\ raised_at \in {325, 327}
    \/ pc = "error" /\ raised_at = 241
\* an exception has cut the pass over a result short
PassCutShort == raised_at \in RaiseLines

C11_OneRecordPerFetch ==
    /\ ~PassCutShort =>
          /\ Len(PagesOfRun) = success
          /\ Len(ErrorsOfRun) = failed
          /\ success + failed = discovered
    /\ Len(PagesOfRun) <= success /\ Len(ErrorsOfRun) <= failed
    /\ success + failed <= discovered
    /\ NoDuplicates(PagesOfRun) /\ NoDuplicates(ErrorsOfRun)
    /\ Cardinality(LogUrls(PagesOfRun)) = Len(PagesOfRun)
    /\ Cardinality(LogUrls(ErrorsOfRun)) = Len(ErrorsOfRun)
    /\ LogUrls(PagesOfRun) \cap LogUrls(ErrorsOfRun) = {}
    /\ LogUrls(PagesOfRun) \cup LogUrls(ErrorsOfRun) \subseteq Range(AllDispatched)
    /\ BatchFullyProcessed =>
          /\ discovered = Len(AllDispatched)
          /\ LogUrls(PagesOfRun) \cup LogUrls(ErrorsOfRun) = Range(AllDispatched)

\* C11 as stated, over the whole of each file: after every fully processed
\* batch #pages = success, #errors = failed, #pages + #errors = discovered =
\* number of URLs dispatched so far, and no dispatched URL has both a page and
\* an error record. A run started on the files of an earlier run counts from
\* zero while the files do not.
C11_WholeLogCounts ==
    (BatchFullyProcessed /\ dispatched # <<>>) =>
        /\ ~PassCutShort =>
              /\ Len(pages_log) = success
              /\ Len(errors_log) = failed
              /\ Len(pages_log) + Len(errors_log) = discovered
        /\ discovered = Len(AllDispatched)
        /\ \A u \in Range(AllDispatched) :
              ~(u \in LogUrls(pages_log) /\ u \in LogUrls(errors_log))

\* two batches with successes and failures have been fully processed, in a
\* run started on the files of an earlier run
C11_Witness ==
    /\ out_dir.pages # <<>>
    /\ pc = "loop" /\ Len(dispatched) >= 2
    /\ success >= 2 /\ failed >= 1
    /\ discovered = Len(AllDispatched)
    /\ \E k \in 1..Len(dispatched) :
          /\ Range(dispatched[k]) \cap LogUrls(PagesOfRun) # {}
          /\ Range(dispatched[k]) \cap LogUrls(ErrorsOfRun) # {}

\* ------------------------------------------------------------------------
\* C12: when a cookies file is named and is missing, or holds neither an
\* array nor an object with a "cookies" array, the run ends in an error
\* before the fetch session is acquired, with nothing dispatched and no
\* record in any of the four logs.
\* ------------------------------------------------------------------------
BadCookiesFile ==
    /\ cookies_file.given
    /\ \/ ~cookies_file.exists
       \/ ~ \/ cookies_file.payload.type = "list"
            \/ (cookies_file.payload.type = "dict"
                /\ cookies_file.payload.cookies = "list")

C12_ConfigFailFast ==
    BadCookiesFile =>
        /\ pc \in {"start", "error"}
        /\ pc = "error" =>
              raised \in {"FileNotFoundError", "ValueError", "JSONDecodeError"}
        /\ session = "none"
        /\ dispatched = <<>> /\ batch = <<>> /\ frontier = <<>>
        /\ pages_log = out_dir.pages /\ images_log = out_dir.images
        /\ youtube_log = out_dir.youtube /\ errors_log = out_dir.errors
        /\ stdout = <<>>

\* a run ended on a cookies file whose "cookies" entry is not an array
C12_Witness ==
    /\ out_dir.pages # <<>>
    /\ pc = "error" /\ raised = "ValueError"
    /\ cookies_file = CookiesPath(TRUE, Json("dict", "str"))
    /\ session = "none" /\ dispatched = <<>>

\* ------------------------------------------------------------------------
\* C13: the fetch session is acquired once, every batch is dispatched while
\* it is held, and it is released once on every way out of the crawl: the
\* loop ending on an empty frontier or on the page ceiling, or an exception
\* raised while a batch is dispatched or processed; nothing is dispatched
\* after the release.
\* ------------------------------------------------------------------------
SessionByPosition ==
    /\ pc \in {"start", "enter"} => session = "none"
    /\ pc \in {"loop", "await", "process", "progress", "unwind"} => session = "open"
    /\ pc \in {"summary", "done"} => session = "closed"
    \* a run ended by an exception holds no session: it was released, or the
    \* run ended before or while acquiring it
    /\ pc = "error" =>
          \/ session = "closed" /\ raised = "Exception" /\ dispatched # <<>>
          \/ session = "none" /\ dispatched = <<>>
    /\ pending # {} => pc \in {"await", "unwind", "error"}

SessionStep ==
    /\ session' # session =>
          \/ session = "none" /\ session' = "open"
          \/ session = "open" /\ session' = "closed"
    /\ (session = "open" /\ pc' \in {"summary", "done", "error"}) => session' = "closed"
    /\ dispatched' # dispatched => session = "open" /\ session' = "open"
    /\ session = "closed" => UNCHANGED <<dispatched, batch, pending, session>>

C13_SessionLifecycle == []SessionByPosition /\ [][SessionStep]_vars

\* an exception at the await of arun_many, with fetches of the second batch
\* still pending, ended the crawl with URLs still queued
C13_Witness ==
    /\ pc = "error" /\ raised = "Exception"
    /\ session = "closed"
    /\ Len(dispatched) >= 2 /\ frontier # <<>>
    /\ pending # {}

\* ------------------------------------------------------------------------
\* C14: every discovered link is resolved against its page and normalized
\* before the visited/queued test, so links that differ only in fragment or
\* in noisy query parameters are enqueued at most once in the whole run, and
\* only canonical URLs are ever in the frontier.
\* ------------------------------------------------------------------------
Canonical(url) == normalize_url(url) = url
\* the link references of a result that are not written in canonical form
Variants(result) ==
    {r \in {x.ref : x \in {y \in Range(result.content.internal) : y.form # "blank"}} :
        ~Canonical(urljoin(normalize_url(result.url), r))}

CanonicalKeys ==
    /\ \A u \in Range(frontier) \cup queued \cup visited : Canonical(u)
    /\ NoDuplicates(frontier)
    /\ NoDuplicates(AllDispatched \o frontier)

EnqueuedOnce ==
    /\ queued \subseteq queued'
    /\ (pc = "process" /\ ri <= Len(results) /\ raised' = "none"
        /\ results[ri].success) =>
          /\ Len(frontier') >= Len(frontier)
          /\ LET new == SubSeq(frontier', Len(frontier) + 1, Len(frontier'))
             IN /\ frontier' = frontier \o new
                /\ NoDuplicates(new)
                /\ Range(new) \cap (queued \cup visited) = {}
                /\ queued' = queued \cup Range(new)
                /\ \A r \in Variants(results[ri]) :
                      LET c == normalize_url(urljoin(normalize_url(results[ri].url), r))
                      IN /\ r \notin Range(frontier')
                         /\ (Eligible(c) => c \in queued')
                         /\ Cardinality({i \in 1..Len(new) : new[i] = c}) <= 1

C14_CanonicalDedupKey == []CanonicalKeys /\ [][EnqueuedOnce]_vars

\* a page was processed that links, in a form with a noisy parameter or a
\* fragment, a URL that an earlier page had already put in the queue
C14_Witness ==
    /\ pc = "process" /\ ri > 1 /\ results[ri - 1].success
    /\ \E r \in Variants(results[ri - 1]) :
          LET c == normalize_url(urljoin(normalize_url(results[ri - 1].url), r))
          IN /\ Eligible(c)
             /\ \E i \in 1..(Len(PagesOfRun) - 1) :
                   /\ c \in Range(PagesOfRun[i].internal_links)
                   /\ PagesOfRun[i].url # results[ri - 1].url
             /\ Cardinality({i \in 1..Len(AllDispatched \o frontier) :
                                (AllDispatched \o frontier)[i] = c}) = 1

\* ------------------------------------------------------------------------
\* normalize_url on its own: the URLs /403/en/FAQ with or without a
\* fragment and with every list of at most MaxQueryLen parameters, noisy
\* in any letter case or not noisy, with a value or bare.  The crawl
\* normalizes the start URL at line 230 and normalizes it again, as
\* result.url, at line 258.
\* ------------------------------------------------------------------------
NormKeys == {"oldid", "OLDID", "Printable", "diff", "lang", "Action"}
NormParams == {Q(k, "5") : k \in NormKeys} \cup {QBare(k) : k \in NormKeys}
NormQueries == UNION {[1..n -> NormParams] : n \in 0..MaxQueryLen}
NormInputs ==
    {U("https", DocsHost, <<"403", "en", "FAQ">>, q, f) :
        q \in NormQueries, f \in {"", "top"}}

NormInit ==
    /\ start_url \in NormInputs
    /\ docs_prefix = <<"403", "en">>
    /\ max_pages = 0 /\ max_concurrent = 1
    /\ site = "tree"
    /\ cookies_file = NoCookiesFile
    /\ delay_seconds = 0
    /\ out_dir \in OutDirs
    /\ pc = "start"
    /\ session = "none"
    /\ frontier = <<>> /\ queued = {} /\ visited = {}
    /\ discovered = 0 /\ success = 0 /\ failed = 0
    /\ unique_images = {} /\ unique_youtube = {}
    /\ batch = <<>> /\ pending = {} /\ results = <<>> /\ ri = 1
    /\ pages_log = out_dir.pages /\ images_log = out_dir.images
    /\ youtube_log = out_dir.youtube /\ errors_log = out_dir.errors
    /\ stdout = <<>>
    /\ dispatched = <<>>
    /\ dist = <<>>
    /\ browser_config = [cookies |-> PyNone, storage_state |-> PyNone]
    /\ raised = "none"
    /\ raised_at = 0
    /\ sleeps = 0

\* the crawls from each of these start URLs: line 230 normalizes the start
\* URL, and line 258 normalizes it again when its result is processed
NormSpec == NormInit /\ [][Crawl]_vars

\* ------------------------------------------------------------------------
\* C15: normalize_url(normalize_url(u)) = normalize_url(u) for every URL u
\* with or without a fragment and with any ordered list of query parameters
\* whose keys are noisy, in any letter case, or not noisy.
\* ------------------------------------------------------------------------
C15_NormalizeIdempotent ==
    /\ normalize_url(normalize_url(start_url)) = normalize_url(start_url)
    /\ dispatched # <<>> => dispatched[1] = <<normalize_url(start_url)>>
    /\ \A i \in 1..Len(results) : normalize_url(results[i].url) = results[i].url
    /\ discovered >= 1 =>
          normalize_url(start_url) \in LogUrls(PagesOfRun) \cup LogUrls(ErrorsOfRun)

\* the crawl from a URL with a fragment, an upper-case noisy key and a bare
\* key that is kept has recorded the page under the URL normalized twice
C15_Witness ==
    /\ pc = "done"
    /\ start_url.fragment = "top"
    /\ start_url.query = <<Q("OLDID", "5"), QBare("lang")>>
    /\ PagesOfRun # <<>>
    /\ PagesOfRun[1].url.query = <<Q("lang", "")>>
    /\ PagesOfRun[1].url.fragment = ""
    /\ normalize_url(PagesOfRun[1].url) = PagesOfRun[1].url

\* ------------------------------------------------------------------------
\* C16: each of the four logs only grows at its end: its content in a state
\* is a prefix of its content in every later state; and every record is
\* written to the log of its kind, one record per write.
\* ------------------------------------------------------------------------
IsPrefix(a, b) == Len(a) <= Len(b) /\ SubSeq(b, 1, Len(a)) = a

RecordKinds ==
    /\ \A r \in Range(pages_log) :
          DOMAIN r = {"url", "internal_links", "external_links", "images",
                      "youtube_links"}
    /\ \A r \in Range(images_log) : DOMAIN r = {"page_url", "src"}
    /\ \A r \in Range(youtube_log) : DOMAIN r = {"page_url", "youtube_url"}
    /\ \A r \in Range(errors_log) : DOMAIN r = {"url", "error"}

\* the records a step adds to a log
Added(log_before, log_after) == Len(log_after) - Len(log_before)

AppendOnlyStep ==
    /\ IsPrefix(pages_log, pages_log') /\ IsPrefix(images_log, images_log')
    /\ IsPrefix(youtube_log, youtube_log') /\ IsPrefix(errors_log, errors_log')
    /\ Added(pages_log, pages_log') + Added(errors_log, errors_log') <= 1
    /\ Added(pages_log, pages_log') <= success' - success
    /\ Added(errors_log, errors_log') <= failed' - failed
    /\ Added(images_log, images_log')
          <= Cardinality(unique_images') - Cardinality(unique_images)
    /\ Added(youtube_log, youtube_log')
          <= Cardinality(unique_youtube') - Cardinality(unique_youtube)
    \* a pass that no exception cuts short writes every record it counts
    /\ raised' = "none" =>
          /\ Added(pages_log, pages_log') = success' - success
          /\ Added(errors_log, errors_log') = failed' - failed
          /\ Added(images_log, images_log')
                = Cardinality(unique_images') - Cardinality(unique_images)
          /\ Added(youtube_log, youtube_log')
                = Cardinality(unique_youtube') - Cardinality(unique_youtube)
          /\ Added(pages_log, pages_log') = 0 =>
                images_log' = images_log /\ youtube_log' = youtube_log
    \* a pass cut short writes no page record and no error record
    /\ raised' # "none" => pages_log' = pages_log /\ errors_log' = errors_log

C16_AppendOnlyLogs == []RecordKinds /\ [][AppendOnlyStep]_vars

\* all four logs hold records written while processing several pages, after
\* the records an earlier run left in the files
C16_Witness ==
    /\ out_dir.pages # <<>> /\ out_dir.images # <<>>
    /\ Len(PagesOfRun) >= 2 /\ Len(ErrorsOfRun) >= 1
    /\ Len(ImagesOfRun) >= 2 /\ Len(YoutubeOfRun) >= 2
    /\ ImagesOfRun[1].page_url # ImagesOfRun[Len(ImagesOfRun)].page_url
    /\ YoutubeOfRun[1].page_url # YoutubeOfRun[Len(YoutubeOfRun)].page_url

\* ------------------------------------------------------------------------
\* C17: after the last result of a batch the loop sleeps (when delay_seconds
\* is greater than 0) and then prints one progress line, both before a URL
\* of the next batch is selected: between two consecutive dispatches there
\* is exactly one sleep and one progress line; the final summary is printed
\* once, after the loop has ended.
\* ------------------------------------------------------------------------
Lines(kind) == {i \in 1..Len(stdout) : stdout[i].line = kind}
ExpectedSleeps(batches) == IF delay_seconds > 0 THEN batches ELSE 0

BatchTail ==
    /\ pc \in {"await", "process"} =>
          /\ Cardinality(Lines("Processed")) = Len(dispatched) - 1
          /\ sleeps = ExpectedSleeps(Len(dispatched) - 1)
    /\ pc = "progress" =>
          /\ Cardinality(Lines("Processed")) = Len(dispatched) - 1
          /\ sleeps = ExpectedSleeps(Len(dispatched))
    /\ pc \in {"loop", "summary", "done"} =>
          /\ Cardinality(Lines("Processed")) = Len(dispatched)
          /\ sleeps = ExpectedSleeps(Len(dispatched))
    /\ Lines("Crawl finished.") = IF pc = "done" THEN {Len(stdout)} ELSE {}
    /\ \A k \in Lines("Processed") :
          /\ k <= Len(dispatched)
          /\ stdout[k].discovered = Len(Flatten(SubSeq(dispatched, 1, k)))

BatchTailStep ==
    /\ sleeps' # sleeps =>
          /\ sleeps' = sleeps + 1 /\ delay_seconds > 0
          /\ pc = "process" /\ ri > Len(results)
          /\ stdout' = stdout
    /\ stdout' # stdout =>
          /\ Len(stdout') = Len(stdout) + 1
          /\ SubSeq(stdout', 1, Len(stdout)) = stdout
          /\ sleeps' = sleeps /\ sleeps = ExpectedSleeps(Len(dispatched))
          /\ ri > Len(results) /\ pending = {}
    /\ (visited' # visited \/ dispatched' # dispatched) =>
          /\ Cardinality(Lines("Processed")) = Len(dispatched)
          /\ sleeps = ExpectedSleeps(Len(dispatched))

C17_DelayThenProgress == []BatchTail /\ [][BatchTailStep]_vars

\* a crawl of several batches with a delay between batches has ended
C17_Witness ==
    /\ pc = "done" /\ delay_seconds > 0
    /\ Len(dispatched) >= 3
    /\ sleeps = Len(dispatched)
    /\ Len(stdout) = Len(dispatched) + 1
    /\ stdout[Len(stdout)].line = "Crawl finished."

\* ------------------------------------------------------------------------
\* C18: for every max_concurrent and page ceiling the configuration accepts,
\* every pass of the outer while that is entered builds a non-empty batch
\* and dispatches it: the continue of line 253 is never taken, so the loop
\* never tests its condition again with nothing changed.
\* ------------------------------------------------------------------------
C18_LoopProgress ==
    (pc = "loop" /\ LoopCondition) => BuildBatch(frontier, visited, <<>>).batch # <<>>

\* ------------------------------------------------------------------------
\* C19: without a page ceiling, when the loop has ended the dispatched URLs
\* are exactly the least set that holds the canonical start URL and, with
\* every successfully fetched page in it, the page's canonical internal
\* links that are in scope and not skip-flagged; pages whose fetch failed
\* add nothing.
\* ------------------------------------------------------------------------
\* the eligible internal links of the successfully fetched pages among urls
LinkedFrom(urls) ==
    UNION {{v \in Range(PagesOfRun[i].internal_links) : Eligible(v)} :
              i \in {j \in 1..Len(PagesOfRun) : PagesOfRun[j].url \in urls}}

RECURSIVE Closure(_)
Closure(urls) ==
    IF LinkedFrom(urls) \subseteq urls THEN urls
    ELSE Closure(urls \cup LinkedFrom(urls))

C19_Completeness ==
    /\ (pc # "start" /\ raised = "none") =>
          Range(AllDispatched) \subseteq Closure({normalize_url(start_url)})
    /\ (pc = "done" /\ max_pages = 0) =>
          /\ frontier = <<>>
          /\ Range(AllDispatched) = Closure({normalize_url(start_url)})

\* an unlimited crawl ended after the fetch of Installation failed: the page
\* it alone links to was never dispatched, pages three links deep were
C19_Witness ==
    /\ pc = "done" /\ max_pages = 0 /\ site = "tree"
    /\ Doc("Installation") \in LogUrls(ErrorsOfRun)
    /\ Doc("Upgrading") \notin Range(AllDispatched)
    /\ Doc("Themes") \in Range(AllDispatched)
    /\ Range(AllDispatched) = Closure({normalize_url(start_url)})

====
